---------------------------- MODULE Spec2Model ----------------------------
(***************************************************************************)
(* llm-secrets: the secret lifecycle manager (src/src/llm_secrets).        *)
(*                                                                         *)
(* Strings are sequences of code points, so that Python's slicing, string  *)
(* repetition, substring test and sorted() can be computed as the code     *)
(* computes them.  A mapping (the decrypted store) is a function from a    *)
(* finite set of keys to values.  A file is Absent or a record             *)
(*   [kind |-> "plain" | "partial" | "enc", text |-> <serialized mapping>] *)
(* where text is the YAML document as the sequence of its key/value lines. *)
(***************************************************************************)
EXTENDS Integers, Sequences, FiniteSets, TLC

(***************************************************************************)
(* Bounds of the model.                                                    *)
(***************************************************************************)
MaxShortLen == 3      \* mask inputs: every string up to this length
MaxMidLen == 9        \* mask inputs: longest hidden middle of a long value
MaxChars == 5         \* largest visible-character count tried
MaxNegChars == 1      \* visible-character counts go down to -MaxNegChars
MaxPeekChars == 1     \* peek --chars values tried against the store: 0..MaxPeekChars

(***************************************************************************)
(* Program constants.                                                      *)
(***************************************************************************)
Star == 42            \* "*"
MaskCap == 8          \* min(hidden_len, 8)
DefaultPeekChars == 4 \* peek_chars: int = 4

EmptySentinel == <<40, 101, 109, 112, 116, 121, 41>>      \* "(empty)"

(***************************************************************************)
(* Python string primitives.                                               *)
(***************************************************************************)
Min(a, b) == IF a <= b THEN a ELSE b
Max(a, b) == IF a >= b THEN a ELSE b

\* Python's normalisation of a slice index against a sequence of length n.
PyIndex(i, n) == IF i < 0 THEN Max(n + i, 0) ELSE Min(i, n)

\* s[:stop]
PySliceTo(s, stop) == SubSeq(s, 1, PyIndex(stop, Len(s)))

\* s[start:]
PySliceFrom(s, start) == SubSeq(s, PyIndex(start, Len(s)) + 1, Len(s))

\* "*" * n   (the empty string when n <= 0)
Stars(n) == [i \in 1..Max(n, 0) |-> Star]

\* sub in s
Contains(s, sub) ==
    \E i \in 0..(Len(s) - Len(sub)) : SubSeq(s, i + 1, i + Len(sub)) = sub

(***************************************************************************)
(* mask_value, preceded by two faulty variants of it: one without the cap  *)
(* on the middle, one with the boundary test off by one.                   *)
(***************************************************************************)
mask_value_nocap(value, peek_chars) ==
    IF value = <<>> THEN EmptySentinel
    ELSE IF Len(value) <= peek_chars * 2 THEN Stars(Len(value))
    ELSE PySliceTo(value, peek_chars)
           \o Stars(Len(value) - (peek_chars * 2))
           \o PySliceFrom(value, 0 - peek_chars)

mask_value_strict(value, peek_chars) ==
    IF value = <<>> THEN EmptySentinel
    ELSE IF Len(value) < peek_chars * 2 THEN Stars(Len(value))
    ELSE PySliceTo(value, peek_chars)
           \o Stars(Min(Len(value) - (peek_chars * 2), MaskCap))
           \o PySliceFrom(value, 0 - peek_chars)

mask_value(value, peek_chars) ==
    IF value = <<>> THEN EmptySentinel
    ELSE IF Len(value) <= peek_chars * 2 THEN Stars(Len(value))
    ELSE LET first == PySliceTo(value, peek_chars)
             last == PySliceFrom(value, 0 - peek_chars)
             hidden_len == Len(value) - (peek_chars * 2)
         IN  first \o Stars(Min(hidden_len, MaskCap)) \o last


(***************************************************************************)
(* Keys, values and mappings.                                              *)
(***************************************************************************)
Procs == {1, 2}

KeyA == <<97>>                                                \* "a"
KeyB == <<98>>                                                \* "b"
Keys == {KeyA, KeyB}
ExampleKey == <<95, 101, 120, 97, 109, 112, 108, 101>>        \* "_example"
ExampleValue == <<114, 101, 112, 108, 97, 99, 101, 45, 109, 101>>  \* "replace-me"
AllKeys == Keys \cup {ExampleKey}

ValX == <<120>>                                               \* "x"
ValYZ == <<121, 122>>                                         \* "yz"
ValEmpty == <<>>                                              \* ""
Values == {ValEmpty, ValX, ValYZ}
AllValues == Values \cup {ExampleValue}

Recipients == {"age1x", "age1y"}
NoRecipient == ""

EmptyMap == [k \in {} |-> <<>>]

\* Every mapping an operator could have stored through set/delete alone.
UserMaps == UNION {[D -> Values] : D \in SUBSET Keys}

\* Python's str comparison: code point by code point, a proper prefix is smaller.
LexLess(a, b) ==
    \E i \in 1..(Min(Len(a), Len(b)) + 1) :
        /\ \A j \in 1..(i - 1) : a[j] = b[j]
        /\ \/ i > Len(a) /\ i <= Len(b)
           \/ i <= Len(a) /\ i <= Len(b) /\ a[i] < b[i]

\* sorted(keys)
RECURSIVE Sorted(_)
Sorted(S) ==
    IF S = {} THEN <<>>
    ELSE LET x == CHOOSE y \in S : \A z \in S \ {y} : LexLess(y, z)
         IN  <<x>> \o Sorted(S \ {x})

\* secrets[key] = value, preceded by the faulty variant that forgets the
\* decrypted mapping
UpdateFresh(m, k, v) == [x \in {k} |-> v]

UpdateSecret(m, k, v) == [x \in DOMAIN m \cup {k} |-> IF x = k THEN v ELSE m[x]]

\* del secrets[key], preceded by the faulty variant that deletes nothing
RemoveNothing(m, k) == m

RemoveSecret(m, k) == [x \in DOMAIN m \ {k} |-> m[x]]

(***************************************************************************)
(* Store codec: yaml.dump writes one "key: value" line per entry, keys     *)
(* sorted; yaml.safe_load builds the mapping from the lines (a repeated key *)
(* keeps its last value) and an empty document loads as None, made {} by   *)
(* "or {}".                                                                *)
(***************************************************************************)
yaml_dump(m) ==
    LET ks == Sorted(DOMAIN m)
    IN  [i \in 1..Len(ks) |-> <<ks[i], m[ks[i]]>>]

yaml_safe_load(text) ==
    LET last(k) == CHOOSE i \in DOMAIN text :
                      /\ text[i][1] = k
                      /\ \A j \in DOMAIN text : text[j][1] = k => j <= i
    IN  [k \in {text[i][1] : i \in DOMAIN text} |-> text[last(k)][2]]

(***************************************************************************)
(* Files.                                                                  *)
(***************************************************************************)
Absent == [kind |-> "absent", text |-> <<>>]
PlainFile(text) == [kind |-> "plain", text |-> text]
PartialFile(text) == [kind |-> "partial", text |-> text]
EncFile(text) == [kind |-> "enc", text |-> text]

Exists(f) == f # Absent

ToolOutcomes == {"ok", "nonzero", "missing"}

\* subprocess.run(["sops", "-d", file]): returncode and stdout.  The tool can
\* exit 0 only on a file it encrypted; "missing" is FileNotFoundError.
SopsDecrypt(f, outcome) ==
    IF outcome = "missing" THEN [rc |-> "missing", stdout |-> <<>>]
    ELSE IF outcome = "ok" /\ f.kind = "enc" THEN [rc |-> "zero", stdout |-> f.text]
    ELSE [rc |-> "nonzero", stdout |-> <<>>]

\* faulty variant of the decryption that decrypts in place ("sops -d -i")
DecryptedInPlace(f, outcome) ==
    IF outcome = "ok" /\ f.kind = "enc" THEN PlainFile(f.text) ELSE f

\* the file after subprocess.run(["sops", "-d", file]): the plaintext goes to
\* stdout, the file is only read
FileAfterDecrypt(f, outcome) == f

\* subprocess.run(["sops", "-e", "-i", file]): returncode and the file after.
\* The tool exits 0 only on a complete plaintext document, which it replaces
\* by its encryption; it refuses a missing, truncated or already encrypted file.
SopsEncrypt(f, outcome) ==
    IF outcome = "missing" THEN [rc |-> "missing", file |-> f]
    ELSE IF outcome = "ok" /\ f.kind = "plain" THEN [rc |-> "zero", file |-> EncFile(f.text)]
    ELSE [rc |-> "nonzero", file |-> f]

\* the mapping decrypt_secrets returns from the tool's stdout
LoadSecrets(stdout) == yaml_safe_load(stdout)


(***************************************************************************)
(* State.                                                                  *)
(*   store, tmp, sopsCfg : the files at the canonical path, at             *)
(*       <store>.yaml.tmp and at <parent>/.sops.yaml                       *)
(*   pc, op, key, val, chars, recip, secrets : each process's position in  *)
(*       the function it runs, its arguments and its local `secrets`       *)
(*   handle : where the file object `f` a process holds open now points    *)
(*       ("tmp", "store" after another process renamed the temp file,      *)
(*       "orphan" after the file was unlinked or replaced, "none")         *)
(*   res, out : how the call ended and what it returned or printed         *)
(*   prior : the store's content when the running core function was called *)
(*   mv1, mv2, mn, mr1, mr2, mdone : inputs and results of mask_value      *)
(*   did : what the running call has done so far (history): entered its    *)
(*       core function, invoked a tool, written a file                     *)
(*   cli : cmd_set's input mode and the file --from-file names             *)
(*   exe : cmd_exec's locals (bindings, position, env) and the child run   *)
(*   environ : os.environ of the process running the command               *)
(*   pathIn, pathOut : inputs and result of get_default_secrets_file       *)
(***************************************************************************)
VARIABLES store, tmp, sopsCfg,
          pc, op, key, val, chars, recip, secrets, handle, res, out, prior,
          mv1, mv2, mn, mr1, mr2, mdone,
          did, cli, exe, environ, pathIn, pathOut

fsVars == <<store, tmp, sopsCfg>>
procVars == <<pc, op, key, val, chars, recip, secrets, handle, res, out, prior>>
maskVars == <<mv1, mv2, mn, mr1, mr2, mdone>>
extVars == <<cli, exe, environ, pathIn, pathOut>>
vars == <<store, tmp, sopsCfg,
          pc, op, key, val, chars, recip, secrets, handle, res, out, prior,
          mv1, mv2, mn, mr1, mr2, mdone,
          did, cli, exe, environ, pathIn, pathOut>>

MutatingOps == {"set", "delete", "init"}

\* cmd_set not running
NoCli == [mode |-> "none", src |-> Absent]

\* nothing executed
NoChild == [ran |-> FALSE, cmd |-> <<>>, env |-> EmptyMap]

\* cmd_exec not running
NoExe == [binds |-> <<>>, idx |-> 0, env |-> EmptyMap, cmd |-> <<>>, child |-> NoChild]

\* the running call has also done the things in S
Did(p, S) == did' = [did EXCEPT ![p] = did[p] \cup S]

\* a process between two calls
Fresh(p) ==
    /\ op' = [op EXCEPT ![p] = "none"]
    /\ key' = [key EXCEPT ![p] = <<>>]
    /\ val' = [val EXCEPT ![p] = <<>>]
    /\ chars' = [chars EXCEPT ![p] = 0]
    /\ recip' = [recip EXCEPT ![p] = NoRecipient]
    /\ secrets' = [secrets EXCEPT ![p] = EmptyMap]
    /\ handle' = [handle EXCEPT ![p] = "none"]
    /\ res' = [res EXCEPT ![p] = "none"]
    /\ out' = [out EXCEPT ![p] = <<>>]
    /\ prior' = [prior EXCEPT ![p] = Absent]
    /\ did' = [did EXCEPT ![p] = {}]
    /\ cli' = [cli EXCEPT ![p] = NoCli]
    /\ exe' = [exe EXCEPT ![p] = NoExe]

InitProcs(running) ==
    /\ pc = [p \in Procs |-> IF p \in running THEN "idle" ELSE "off"]
    /\ op = [p \in Procs |-> "none"]
    /\ key = [p \in Procs |-> <<>>]
    /\ val = [p \in Procs |-> <<>>]
    /\ chars = [p \in Procs |-> 0]
    /\ recip = [p \in Procs |-> NoRecipient]
    /\ secrets = [p \in Procs |-> EmptyMap]
    /\ handle = [p \in Procs |-> "none"]
    /\ res = [p \in Procs |-> "none"]
    /\ out = [p \in Procs |-> <<>>]
    /\ prior = [p \in Procs |-> Absent]
    /\ did = [p \in Procs |-> {}]
    /\ cli = [p \in Procs |-> NoCli]
    /\ exe = [p \in Procs |-> NoExe]

InitMaskIdle ==
    /\ mv1 = <<>> /\ mv2 = <<>> /\ mn = 0
    /\ mr1 = <<>> /\ mr2 = <<>> /\ mdone = FALSE

\* the environment the commands run in: A=old, H=h
VarA == <<65>>
VarH == <<72>>
ParentEnv == [v \in {VarA, VarH} |-> IF v = VarA THEN <<111, 108, 100>> ELSE <<104>>]

InitEnviron == environ = ParentEnv

\* get_default_secrets_file not called
NoPathIn == [envFile |-> <<>>, xdg |-> <<>>, home |-> <<>>, files |-> {}]
NoPathOut == [done |-> FALSE, path |-> <<>>]

InitPathIdle == pathIn = NoPathIn /\ pathOut = NoPathOut

\* One operator at the shell: no store yet.
Init ==
    /\ store = Absent /\ tmp = Absent /\ sopsCfg = Absent
    /\ InitProcs({1})
    /\ InitMaskIdle
    /\ InitEnviron
    /\ InitPathIdle

\* the exception classes of secrets.py, all subclasses of SecretsError
SecretsErrors == {"SecretsNotFoundError", "KeyNotFoundError", "SOPSError:decrypt",
                  "SOPSError:encrypt", "SecretsError:exists", "SecretsError:norecipient"}

\* what a cmd_* function makes of how its call ended: "except
\* secrets.SecretsError" prints a message and returns 1, the commands' own
\* checks return 1, any other exception leaves the command as a traceback
CliOutcome(r) ==
    IF r = "ok" THEN "return 0"
    ELSE IF r \in {"FileNotFoundError", "OSError"} THEN "traceback"
    ELSE "return 1"

\* the call ends: an exception leaves the function, or it returns
Finish(p, r) ==
    /\ pc' = [pc EXCEPT ![p] = "done"]
    /\ res' = [res EXCEPT ![p] = r]

\* the try block is left, by an exception or at its end: the finally block runs
EnterFinally(p, r) ==
    /\ pc' = [pc EXCEPT ![p] = "finally"]
    /\ res' = [res EXCEPT ![p] = r]

(***************************************************************************)
(* set_secret                                                              *)
(***************************************************************************)
\* set_secret(key, value) up to its call of decrypt_secrets; a store that does
\* not exist yet starts from the empty mapping.  (The mkdir of the parent
\* directory has no effect on the three files of the state.)
SetEntry(p, k, v) ==
    /\ op' = [op EXCEPT ![p] = "set"]
    /\ key' = [key EXCEPT ![p] = k]
    /\ val' = [val EXCEPT ![p] = v]
    /\ prior' = [prior EXCEPT ![p] = store]
    /\ IF Exists(store)
         THEN /\ pc' = [pc EXCEPT ![p] = "decrypt"]
              /\ UNCHANGED secrets
         ELSE /\ pc' = [pc EXCEPT ![p] = "open_tmp"]
              /\ secrets' = [secrets EXCEPT ![p] = UpdateSecret(EmptyMap, k, v)]
    /\ Did(p, {"core"})

\* set_secret called directly
SetSecret(p, k, v) ==
    /\ pc[p] = "idle"
    /\ SetEntry(p, k, v)
    /\ UNCHANGED <<fsVars, chars, recip, handle, res, out, maskVars, extVars>>

(***************************************************************************)
(* cmd_set: the value comes from --value, from --from-file or from the     *)
(* hidden prompt, then set_secret is called.                               *)
(***************************************************************************)
\* str.strip(): leading and trailing whitespace (space, tab, newline) removed
IsSpace(c) == c \in {32, 9, 10}

Strip(s) ==
    LET keep == {i \in DOMAIN s : ~IsSpace(s[i])}
    IN  IF keep = {} THEN <<>>
        ELSE SubSeq(s, CHOOSE i \in keep : \A j \in keep : i <= j,
                       CHOOSE i \in keep : \A j \in keep : j <= i)

\* the file --from-file names
SrcFile(text) == [kind |-> "src", text |-> text]

\* what such a file can hold: "", "\n", "x\n", " yz "
SrcTexts == {<<>>, <<10>>, <<120, 10>>, <<32, 121, 122, 32>>}

SrcFiles == {Absent} \cup {SrcFile(t) : t \in SrcTexts}

\* the values --value can carry, and no --value
OptValues == {<<>>} \cup {<<v>> : v \in Values}

\* an optional argument: <<>> when not given (None), <<v>> when given
Given(arg) == arg # <<>>

\* Python truthiness of an optional string argument
Truthy(arg) == Given(arg) /\ arg[1] # <<>>

\* cmd_set's three input branches.  ret is "call" when set_secret is to be
\* called with value, else the reason for "return 1"; src is the file of the
\* --from-file branch afterwards (--delete-file unlinks it before set_secret
\* is called); the other branches do not look at a file.
CmdSetInput(argValue, fromFile, deleteFile, file, typed, confirm) ==
    IF Truthy(argValue)
      THEN [ret |-> "call", mode |-> "value", value |-> argValue[1], src |-> Absent]
    ELSE IF fromFile
      THEN IF ~Exists(file)
             THEN [ret |-> "nofile", mode |-> "from_file", value |-> <<>>, src |-> file]
             ELSE [ret |-> "call", mode |-> "from_file", value |-> Strip(file.text),
                   src |-> IF deleteFile THEN Absent ELSE file]
    ELSE IF typed = <<>>
      THEN [ret |-> "empty", mode |-> "prompt", value |-> <<>>, src |-> Absent]
    ELSE IF typed # confirm
      THEN [ret |-> "mismatch", mode |-> "prompt", value |-> <<>>, src |-> Absent]
    ELSE [ret |-> "call", mode |-> "prompt", value |-> typed, src |-> Absent]

\* cmd_set up to and including its call of set_secret
CmdSet(p, k, argValue, fromFile, deleteFile, file, typed, confirm) ==
    /\ pc[p] = "idle"
    /\ LET r == CmdSetInput(argValue, fromFile, deleteFile, file, typed, confirm)
       IN  /\ cli' = [cli EXCEPT ![p] = [mode |-> r.mode, src |-> r.src]]
           /\ IF r.ret = "call"
                THEN SetEntry(p, k, r.value) /\ UNCHANGED res
                ELSE /\ Finish(p, r.ret)
                     /\ op' = [op EXCEPT ![p] = "set"]
                     /\ key' = [key EXCEPT ![p] = k]
                     /\ prior' = [prior EXCEPT ![p] = store]
                     /\ UNCHANGED <<val, secrets, did>>
    /\ UNCHANGED <<fsVars, chars, recip, handle, out, maskVars, exe, environ, pathIn, pathOut>>

(***************************************************************************)
(* delete_secret                                                           *)
(***************************************************************************)
\* delete_secret(key) up to its call of decrypt_secrets
DeleteSecret(p, k) ==
    /\ pc[p] = "idle"
    /\ op' = [op EXCEPT ![p] = "delete"]
    /\ key' = [key EXCEPT ![p] = k]
    /\ prior' = [prior EXCEPT ![p] = store]
    /\ IF ~Exists(store)
         THEN Finish(p, "SecretsNotFoundError")
         ELSE /\ pc' = [pc EXCEPT ![p] = "decrypt"]
              /\ UNCHANGED res
    /\ Did(p, {"core"})
    /\ UNCHANGED <<fsVars, val, chars, recip, secrets, handle, out, maskVars, extVars>>

\* faulty variant of decrypt_secrets that answers a failed decryption with
\* the empty mapping
DecryptOrEmpty(f, outcome) ==
    IF ~Exists(f) THEN [err |-> "SecretsNotFoundError", m |-> EmptyMap]
    ELSE LET r == SopsDecrypt(f, outcome)
         IN  IF r.rc = "zero" THEN [err |-> "ok", m |-> LoadSecrets(r.stdout)]
             ELSE [err |-> "ok", m |-> EmptyMap]

\* decrypt_secrets(secrets_file): the error raised, or "ok" and the mapping
DecryptSecrets(f, outcome) ==
    IF ~Exists(f) THEN [err |-> "SecretsNotFoundError", m |-> EmptyMap]
    ELSE LET r == SopsDecrypt(f, outcome)
         IN  IF r.rc = "missing" THEN [err |-> "FileNotFoundError", m |-> EmptyMap]
             ELSE IF r.rc = "nonzero" THEN [err |-> "SOPSError:decrypt", m |-> EmptyMap]
             ELSE [err |-> "ok", m |-> LoadSecrets(r.stdout)]

\* history of one decrypt_secrets call: the tool was run (or its start was
\* attempted), and whether it produced a decryption
DecryptTrace(f, outcome) ==
    IF ~Exists(f) THEN {}
    ELSE {"sops-d"} \cup (IF SopsDecrypt(f, outcome).rc # "zero"
                           THEN {"decrypt-failed"} ELSE {})
                   \cup (IF SopsDecrypt(f, outcome).rc = "missing"
                           THEN {"tool-missing"} ELSE {})

\* decrypt_secrets as called by set_secret and delete_secret, and what each
\* does with the mapping (secrets[key] = value; key check and del secrets[key])
Decrypt(p) ==
    /\ pc[p] = "decrypt"
    /\ \E outcome \in ToolOutcomes :
         LET d == DecryptSecrets(store, outcome)
         IN  /\ Did(p, DecryptTrace(store, outcome))
             /\ store' = FileAfterDecrypt(store, outcome)
             /\ IF d.err # "ok"
                  THEN Finish(p, d.err) /\ UNCHANGED secrets
                ELSE IF op[p] = "set"
                  THEN /\ secrets' = [secrets EXCEPT ![p] = UpdateSecret(d.m, key[p], val[p])]
                       /\ pc' = [pc EXCEPT ![p] = "open_tmp"]
                       /\ UNCHANGED res
                ELSE IF key[p] \notin DOMAIN d.m
                  THEN Finish(p, "KeyNotFoundError") /\ UNCHANGED secrets
                ELSE /\ secrets' = [secrets EXCEPT ![p] = RemoveSecret(d.m, key[p])]
                     /\ pc' = [pc EXCEPT ![p] = "open_tmp"]
                     /\ UNCHANGED res
    /\ UNCHANGED <<tmp, sopsCfg, op, key, val, chars, recip, handle, out, prior, maskVars, extVars>>

(***************************************************************************)
(* The write-temp / encrypt / rename / finally sequence shared by          *)
(* set_secret, delete_secret and init_secrets_file.                        *)
(***************************************************************************)
\* what happens to a file object another process holds open on a path
HandleAfterRename(h) ==
    IF h = "tmp" THEN "store" ELSE IF h = "store" THEN "orphan" ELSE h

HandleAfterUnlinkTmp(h) == IF h = "tmp" THEN "orphan" ELSE h

HandleAfterUnlinkStore(h) == IF h = "store" THEN "orphan" ELSE h

\* open(temp_file, "w"): creates or truncates the temp file, or raises OSError
OpenTmp(p) ==
    /\ pc[p] = "open_tmp"
    /\ \/ /\ tmp' = PartialFile(<<>>)
          /\ handle' = [handle EXCEPT ![p] = "tmp"]
          /\ pc' = [pc EXCEPT ![p] = "dump_tmp"]
          /\ Did(p, {"tmp"})
          /\ UNCHANGED res
       \/ /\ EnterFinally(p, "OSError")
          /\ UNCHANGED <<tmp, handle, did>>
    /\ UNCHANGED <<store, sopsCfg, op, key, val, chars, recip, secrets, out, prior, maskVars, extVars>>

\* the file a write through the process's file object lands in
WriteThrough(h, content, files) ==
    [store |-> IF h = "store" THEN content ELSE files.store,
     tmp |-> IF h = "tmp" THEN content ELSE files.tmp]

\* yaml.dump(secrets, f) and the close of f: the whole document is written,
\* or the write raises OSError with only the first n lines on disk
DumpTmp(p) ==
    /\ pc[p] = "dump_tmp"
    /\ LET text == yaml_dump(secrets[p])
           files == [store |-> store, tmp |-> tmp]
       IN  \/ /\ store' = WriteThrough(handle[p], PlainFile(text), files).store
              /\ tmp' = WriteThrough(handle[p], PlainFile(text), files).tmp
              /\ pc' = [pc EXCEPT ![p] = IF op[p] = "init" THEN "write_cfg" ELSE "encrypt"]
              /\ UNCHANGED res
           \/ \E n \in 0..Max(Len(text) - 1, 0) :
                /\ store' = WriteThrough(handle[p], PartialFile(SubSeq(text, 1, n)), files).store
                /\ tmp' = WriteThrough(handle[p], PartialFile(SubSeq(text, 1, n)), files).tmp
                /\ EnterFinally(p, "OSError")
    /\ handle' = [handle EXCEPT ![p] = "none"]
    /\ Did(p, {"tmp"})
    /\ UNCHANGED <<sopsCfg, op, key, val, chars, recip, secrets, out, prior, maskVars, extVars>>

\* "if result.returncode != 0: raise SOPSError", preceded by the faulty
\* variant that ignores the return code
EncryptUnchecked(rc) == "continue"

EncryptChecked(rc) == IF rc # "zero" THEN "raise" ELSE "continue"

\* subprocess.run(["sops", "-e", "-i", temp_file]) and the returncode check
Encrypt(p) ==
    /\ pc[p] = "encrypt"
    /\ \E outcome \in ToolOutcomes :
         LET r == SopsEncrypt(tmp, outcome)
         IN  /\ tmp' = r.file
             /\ Did(p, {"sops-e"} \cup (IF r.rc = "missing" THEN {"tool-missing"} ELSE {}))
             /\ IF r.rc = "missing" THEN EnterFinally(p, "FileNotFoundError")
                ELSE IF EncryptChecked(r.rc) = "raise" THEN EnterFinally(p, "SOPSError:encrypt")
                ELSE pc' = [pc EXCEPT ![p] = "rename"] /\ UNCHANGED res
    /\ UNCHANGED <<store, sopsCfg, op, key, val, chars, recip, secrets, handle, out, prior, maskVars, extVars>>

\* temp_file.rename(secrets_file): the temp file replaces the store in one
\* step; FileNotFoundError when the temp file is gone
Rename(p) ==
    /\ pc[p] = "rename"
    /\ IF Exists(tmp)
         THEN /\ store' = tmp
              /\ tmp' = Absent
              /\ handle' = [q \in Procs |-> HandleAfterRename(handle[q])]
              /\ Did(p, {"store"})
              /\ EnterFinally(p, "ok")
         ELSE /\ EnterFinally(p, "FileNotFoundError")
              /\ UNCHANGED <<store, tmp, handle, did>>
    /\ UNCHANGED <<sopsCfg, op, key, val, chars, recip, secrets, out, prior, maskVars, extVars>>

\* "if temp_file.exists(): temp_file.unlink()", preceded by the faulty variant
\* that leaves the temp file
KeepTemp(f) == f

Cleanup(f) == IF Exists(f) THEN Absent ELSE f

\* the finally block, then the function returns or the exception propagates;
\* after a set_secret that returned, cmd_set prints mask_value(value)
Finally(p) ==
    /\ pc[p] = "finally"
    /\ tmp' = Cleanup(tmp)
    /\ handle' = IF tmp' = tmp THEN handle
                 ELSE [q \in Procs |-> HandleAfterUnlinkTmp(handle[q])]
    /\ pc' = [pc EXCEPT ![p] = "done"]
    /\ out' = [out EXCEPT ![p] = IF cli[p].mode # "none" /\ res[p] = "ok"
                                   THEN mask_value(val[p], DefaultPeekChars)
                                   ELSE out[p]]
    /\ UNCHANGED <<store, sopsCfg, op, key, val, chars, recip, secrets, res, prior, did, maskVars, extVars>>


(***************************************************************************)
(* init_secrets_file and cmd_init                                          *)
(***************************************************************************)
\* f.write(f"creation_rules:\n  - age: {age_recipient}\n")
ConfigFile(recipient) == [kind |-> "cfg", text |-> <<recipient>>]

\* initial_content = {"_example": "replace-me"}, preceded by the faulty
\* variant that starts the store empty
InitialContentEmpty == EmptyMap

InitialContent == [k \in {ExampleKey} |-> ExampleValue]

\* init_secrets_file(secrets_file, age_recipient) called directly
InitSecretsFile(p, r) ==
    /\ pc[p] = "idle"
    /\ op' = [op EXCEPT ![p] = "init"]
    /\ recip' = [recip EXCEPT ![p] = r]
    /\ pc' = [pc EXCEPT ![p] = "init_entry"]
    /\ UNCHANGED <<fsVars, key, val, chars, secrets, handle, res, out, prior, did, maskVars, extVars>>

\* cmd_init up to its call of init_secrets_file: refuses an existing store
\* without --force (return 1), unlinks it with --force
CmdInit(p, force, r) ==
    /\ pc[p] = "idle"
    /\ op' = [op EXCEPT ![p] = "init"]
    /\ recip' = [recip EXCEPT ![p] = r]
    /\ prior' = [prior EXCEPT ![p] = store]
    /\ IF Exists(store) /\ ~force
         THEN /\ Finish(p, "exists")
              /\ UNCHANGED <<store, handle, did>>
         ELSE /\ store' = Absent
              /\ handle' = IF Exists(store)
                             THEN [q \in Procs |-> HandleAfterUnlinkStore(handle[q])]
                             ELSE handle
              /\ pc' = [pc EXCEPT ![p] = "init_entry"]
              /\ Did(p, IF Exists(store) THEN {"unlink-store"} ELSE {})
              /\ UNCHANGED res
    /\ UNCHANGED <<tmp, sopsCfg, key, val, chars, secrets, out, maskVars, extVars>>

\* "if secrets_file.exists(): raise SecretsError", preceded by the faulty
\* variant without the test
InitOverExisting(f) == FALSE

StoreAlreadyExists(f) == Exists(f)

\* init_secrets_file: the store must not exist
InitEntry(p) ==
    /\ pc[p] = "init_entry"
    /\ prior' = [prior EXCEPT ![p] = store]
    /\ Did(p, {"core"})
    /\ IF StoreAlreadyExists(store)
         THEN Finish(p, "SecretsError:exists") /\ UNCHANGED secrets
         ELSE /\ pc' = [pc EXCEPT ![p] = IF recip[p] = NoRecipient
                                           THEN "init_recipient" ELSE "open_tmp"]
              /\ secrets' = [secrets EXCEPT ![p] = InitialContent]
              /\ UNCHANGED res
    /\ UNCHANGED <<fsVars, op, key, val, chars, recip, handle, out, maskVars, extVars>>

\* faulty variant of the derivation that takes age-keygen's output whatever
\* its return code
DeriveIgnoringExit(keyFileExists, outcome, stdout) ==
    IF ~keyFileExists THEN NoRecipient
    ELSE IF outcome = "missing" THEN "raise"
    ELSE stdout

\* the recipient derived from the private key file; stdout is
\* already stripped.  "raise" is FileNotFoundError from subprocess.run.
DeriveRecipient(keyFileExists, outcome, stdout) ==
    IF ~keyFileExists THEN NoRecipient
    ELSE IF outcome = "missing" THEN "raise"
    ELSE IF outcome = "ok" THEN stdout
    ELSE NoRecipient

\* history of the derivation: no private key file; or age-keygen was run (or
\* its start attempted) and was missing, exited non-zero, or printed nothing
DeriveTrace(keyFileExists, outcome, stdout) ==
    IF ~keyFileExists THEN {"nokey"}
    ELSE {"age-keygen"} \cup
         (IF outcome = "missing" THEN {"keygen-missing", "tool-missing"}
          ELSE IF outcome = "nonzero" THEN {"keygen-nonzero"}
          ELSE IF stdout = NoRecipient THEN {"keygen-empty"}
          ELSE {})

\* age_recipient, given or derived, or the no-recipient error
InitRecipient(p) ==
    /\ pc[p] = "init_recipient"
    /\ \E keyFileExists \in BOOLEAN, outcome \in ToolOutcomes,
          stdout \in Recipients \cup {NoRecipient} :
         LET r == DeriveRecipient(keyFileExists, outcome, stdout)
         IN  /\ Did(p, DeriveTrace(keyFileExists, outcome, stdout))
             /\ IF r = "raise"
                  THEN Finish(p, "FileNotFoundError") /\ UNCHANGED recip
                ELSE IF r = NoRecipient
                  THEN Finish(p, "SecretsError:norecipient") /\ UNCHANGED recip
                ELSE /\ recip' = [recip EXCEPT ![p] = r]
                     /\ pc' = [pc EXCEPT ![p] = "open_tmp"]
                     /\ UNCHANGED res
    /\ UNCHANGED <<fsVars, op, key, val, chars, secrets, handle, out, prior, maskVars, extVars>>

\* faulty variant that writes .sops.yaml on every init
ConfigOverwritten(cfg, recipient) == ConfigFile(recipient)

\* "if not sops_config.exists():" then the file is written
ConfigAfterInit(cfg, recipient) == IF Exists(cfg) THEN cfg ELSE ConfigFile(recipient)

\* .sops.yaml is written if it does not exist
WriteCfg(p) ==
    /\ pc[p] = "write_cfg"
    /\ sopsCfg' = ConfigAfterInit(sopsCfg, recip[p])
    /\ pc' = [pc EXCEPT ![p] = "encrypt"]
    /\ Did(p, IF Exists(sopsCfg) THEN {} ELSE {"cfg"})
    /\ UNCHANGED <<store, tmp, op, key, val, chars, recip, secrets, handle, res, out, prior, maskVars, extVars>>

(***************************************************************************)
(* Reads: list_keys, get_secret, peek_secret, cmd_peek                     *)
(***************************************************************************)
\* sorted(secrets.keys())
list_keys_of(m) == Sorted(DOMAIN m)

\* get_secret on the decrypted mapping
get_secret_of(m, k) ==
    IF k \notin DOMAIN m THEN [err |-> "KeyNotFoundError", value |-> <<>>]
    ELSE [err |-> "ok", value |-> m[k]]

ListKeys(p) ==
    /\ pc[p] = "idle"
    /\ op' = [op EXCEPT ![p] = "list"]
    /\ \E outcome \in ToolOutcomes :
         LET d == DecryptSecrets(store, outcome)
         IN  /\ Finish(p, d.err)
             /\ Did(p, DecryptTrace(store, outcome))
             /\ store' = FileAfterDecrypt(store, outcome)
             /\ out' = [out EXCEPT ![p] = IF d.err = "ok" THEN list_keys_of(d.m) ELSE <<>>]
    /\ UNCHANGED <<tmp, sopsCfg, key, val, chars, recip, secrets, handle, prior, maskVars, extVars>>

\* get_secret(key): decrypt, then the lookup
GetOn(f, k, outcome) ==
    LET d == DecryptSecrets(f, outcome)
    IN  IF d.err # "ok" THEN [err |-> d.err, value |-> <<>>]
        ELSE get_secret_of(d.m, k)

GetSecret(p, k) ==
    /\ pc[p] = "idle"
    /\ op' = [op EXCEPT ![p] = "get"]
    /\ key' = [key EXCEPT ![p] = k]
    /\ \E outcome \in ToolOutcomes :
         LET g == GetOn(store, k, outcome)
         IN  /\ Finish(p, g.err)
             /\ Did(p, DecryptTrace(store, outcome))
             /\ store' = FileAfterDecrypt(store, outcome)
             /\ out' = [out EXCEPT ![p] = g.value]
    /\ UNCHANGED <<tmp, sopsCfg, val, chars, recip, secrets, handle, prior, maskVars, extVars>>

PeekChars == (0 - MaxNegChars)..MaxPeekChars

\* cmd_peek: peek_secret(key, chars) and the masked value printed
CmdPeek(p, k, n) ==
    /\ pc[p] = "idle"
    /\ op' = [op EXCEPT ![p] = "peek"]
    /\ key' = [key EXCEPT ![p] = k]
    /\ chars' = [chars EXCEPT ![p] = n]
    /\ \E outcome \in ToolOutcomes :
         LET g == GetOn(store, k, outcome)
         IN  /\ Did(p, DecryptTrace(store, outcome))
             /\ store' = FileAfterDecrypt(store, outcome)
             /\ IF g.err # "ok"
                  THEN Finish(p, g.err) /\ UNCHANGED <<out, val>>
                ELSE /\ val' = [val EXCEPT ![p] = g.value]
                     /\ out' = [out EXCEPT ![p] = mask_value(g.value, n)]
                     /\ pc' = [pc EXCEPT ![p] = "peek_length"]
                     /\ UNCHANGED res
    /\ UNCHANGED <<tmp, sopsCfg, recip, secrets, handle, prior, maskVars, extVars>>

\* cmd_peek: get_secret again for the "Length: N chars" line
PeekLength(p) ==
    /\ pc[p] = "peek_length"
    /\ \E outcome \in ToolOutcomes :
         /\ Finish(p, GetOn(store, key[p], outcome).err)
         /\ Did(p, DecryptTrace(store, outcome))
         /\ store' = FileAfterDecrypt(store, outcome)
    /\ UNCHANGED <<tmp, sopsCfg, op, key, val, chars, recip, secrets, handle, out, prior, maskVars, extVars>>

(***************************************************************************)
(* cmd_exec: secrets injected into the environment of a child command      *)
(***************************************************************************)
MaxBindings == 2

\* --inject arguments: "A=a", "A=b", "B=a", "Aa" (no separator) and "A=a=b"
\* (the secret key is "a=b")
BindAa == <<65, 61, 97>>
BindAb == <<65, 61, 98>>
BindBa == <<66, 61, 97>>
BindNoSep == <<65, 97>>
BindTwoSep == <<65, 61, 97, 61, 98>>
Bindings == {BindAa, BindAb, BindBa, BindNoSep, BindTwoSep}

BindingSeqs == UNION {[1..n -> Bindings] : n \in 0..MaxBindings}

\* args.exec_command as argparse.REMAINDER leaves it
Commands == {<<>>, <<"--">>, <<"--", "run">>, <<"run">>}

\* "=" in inject
HasSep(b) == \E i \in DOMAIN b : b[i] = 61

\* inject.split("=", 1): the text before and after the first "="
SplitFirst(b) ==
    LET i == CHOOSE j \in DOMAIN b : b[j] = 61 /\ \A h \in 1..(j - 1) : b[h] # 61
    IN  [var |-> SubSeq(b, 1, i - 1), key |-> SubSeq(b, i + 1, Len(b))]

\* the leading "--" is dropped
StripDashes(command) ==
    IF command # <<>> /\ command[1] = "--" THEN Tail(command) ELSE command

\* e[var] = value on a dict
EnvSet(e, var, value) ==
    [v \in DOMAIN e \cup {var} |-> IF v = var THEN value ELSE e[v]]

\* faulty variant of the injection in which env is os.environ itself
InjectShared(parent, local, var, value) ==
    [parent |-> EnvSet(parent, var, value), local |-> EnvSet(local, var, value)]

\* env = os.environ.copy() ... env[env_var] = value: the copy is written,
\* os.environ is not
Inject(parent, local, var, value) ==
    [parent |-> parent, local |-> EnvSet(local, var, value)]

\* faulty variant of the loop body that goes on after a binding it cannot
\* resolve, with an empty value for it
ResolveLenient(b, f, outcome) ==
    IF ~HasSep(b) THEN [ret |-> "next", var |-> b, value |-> <<>>]
    ELSE LET g == GetOn(f, SplitFirst(b).key, outcome)
         IN  [ret |-> "next", var |-> SplitFirst(b).var, value |-> g.value]

\* one pass of "for inject in args.inject": return 1 on a binding without
\* "=", the SecretsError of get_secret, or the variable and its value
ResolveBinding(b, f, outcome) ==
    IF ~HasSep(b) THEN [ret |-> "badformat", var |-> <<>>, value |-> <<>>]
    ELSE LET g == GetOn(f, SplitFirst(b).key, outcome)
         IN  IF g.err # "ok" THEN [ret |-> g.err, var |-> <<>>, value |-> <<>>]
             ELSE [ret |-> "next", var |-> SplitFirst(b).var, value |-> g.value]

\* cmd_exec up to the loop: the command must not be empty; env is a copy of
\* os.environ
ExecStart(p, binds, command) ==
    /\ pc[p] = "idle"
    /\ op' = [op EXCEPT ![p] = "exec"]
    /\ prior' = [prior EXCEPT ![p] = store]
    /\ IF StripDashes(command) = <<>>
         THEN /\ Finish(p, "nocommand")
              /\ exe' = [exe EXCEPT ![p] = [NoExe EXCEPT !.binds = binds]]
         ELSE /\ pc' = [pc EXCEPT ![p] = "exec_loop"]
              /\ exe' = [exe EXCEPT ![p] = [binds |-> binds, idx |-> 1, env |-> environ,
                                            cmd |-> StripDashes(command), child |-> NoChild]]
              /\ UNCHANGED res
    /\ UNCHANGED <<fsVars, key, val, chars, recip, secrets, handle, out, did, maskVars,
                   cli, environ, pathIn, pathOut>>

\* the loop body for the next binding
ExecBind(p) ==
    /\ pc[p] = "exec_loop"
    /\ exe[p].idx <= Len(exe[p].binds)
    /\ \E outcome \in ToolOutcomes :
         LET b == exe[p].binds[exe[p].idx]
             r == ResolveBinding(b, store, outcome)
             e == Inject(environ, exe[p].env, r.var, r.value)
         IN  /\ Did(p, IF HasSep(b) THEN DecryptTrace(store, outcome) ELSE {})
             /\ store' = IF HasSep(b) THEN FileAfterDecrypt(store, outcome) ELSE store
             /\ IF r.ret = "next"
                  THEN /\ environ' = e.parent
                       /\ exe' = [exe EXCEPT ![p].env = e.local, ![p].idx = @ + 1]
                       /\ UNCHANGED <<pc, res>>
                ELSE /\ Finish(p, r.ret)
                     /\ UNCHANGED <<exe, environ>>
    /\ UNCHANGED <<tmp, sopsCfg, op, key, val, chars, recip, secrets, handle, out, prior, maskVars,
                   cli, pathIn, pathOut>>

\* result = subprocess.run(command, env=env, shell=False): the child runs with
\* env and its return code is returned, or the command cannot be started
ExecRun(p) ==
    /\ pc[p] = "exec_loop"
    /\ exe[p].idx > Len(exe[p].binds)
    /\ \/ /\ exe' = [exe EXCEPT ![p].child = [ran |-> TRUE, cmd |-> exe[p].cmd,
                                                env |-> exe[p].env]]
          /\ \E r \in {"ok", "child:nonzero"} : Finish(p, r)
       \/ /\ Finish(p, "FileNotFoundError")
          /\ UNCHANGED exe
    /\ UNCHANGED <<fsVars, op, key, val, chars, recip, secrets, handle, out, prior, did, maskVars,
                   cli, environ, pathIn, pathOut>>

\* the command is over; the operator is back at the prompt
Return(p) ==
    /\ pc[p] = "done"
    /\ pc' = [pc EXCEPT ![p] = "idle"]
    /\ Fresh(p)
    /\ UNCHANGED <<fsVars, maskVars, environ, pathIn, pathOut>>

(***************************************************************************)
(* Specifications.                                                         *)
(***************************************************************************)
Step(p) ==
    \/ \E k \in Keys, v \in Values : SetSecret(p, k, v)
    \/ \E k \in Keys, argValue \in OptValues, fromFile \in BOOLEAN, deleteFile \in BOOLEAN,
          file \in SrcFiles, typed \in Values, confirm \in Values :
         CmdSet(p, k, argValue, fromFile, deleteFile, file, typed, confirm)
    \/ \E k \in AllKeys : DeleteSecret(p, k)
    \/ Decrypt(p)
    \/ OpenTmp(p)
    \/ DumpTmp(p)
    \/ Encrypt(p)
    \/ Rename(p)
    \/ Finally(p)
    \/ \E r \in Recipients \cup {NoRecipient} : InitSecretsFile(p, r)
    \/ \E force \in BOOLEAN, r \in Recipients \cup {NoRecipient} : CmdInit(p, force, r)
    \/ InitEntry(p)
    \/ InitRecipient(p)
    \/ WriteCfg(p)
    \/ ListKeys(p)
    \/ \E k \in AllKeys : GetSecret(p, k)
    \/ \E k \in AllKeys, n \in PeekChars : CmdPeek(p, k, n)
    \/ PeekLength(p)
    \/ \E binds \in BindingSeqs, command \in Commands : ExecStart(p, binds, command)
    \/ ExecBind(p)
    \/ ExecRun(p)

Next == \E p \in Procs : Step(p) \/ Return(p)

\* a single operator running one command after another
Spec == Init /\ [][Next]_vars


(***************************************************************************)
(* Properties of the single-operator specification.                        *)
(***************************************************************************)
\* the process is inside set_secret, delete_secret or init_secrets_file, or
\* the call has just ended
InCall(p) ==
    /\ op[p] \in MutatingOps
    /\ pc[p] \in {"decrypt", "init_recipient", "open_tmp", "dump_tmp", "write_cfg",
                  "encrypt", "rename", "finally", "done"}

\* the mapping a store file decrypts to; empty when there is no store
PriorMap(f) == IF f.kind = "enc" THEN yaml_safe_load(f.text) ELSE EmptyMap

\* C1: with a single writer, during and after every set_secret, delete_secret
\* or init_secrets_file call the file at the canonical path is the content it
\* had when the call began (or still absent), or the complete encryption of
\* the new mapping; it is never plaintext and never partially written.
C1_AtomicStore ==
    \A p \in Procs :
        InCall(p) =>
            /\ store.kind \in {"absent", "enc"}
            /\ \/ store = prior[p]
               \/ store = EncFile(yaml_dump(secrets[p]))

\* C1 witness: a call has replaced an existing store by new encrypted content.
C1_Witness ==
    \E p \in Procs :
        /\ InCall(p) /\ pc[p] = "finally" /\ res[p] = "ok"
        /\ Exists(prior[p]) /\ store # prior[p]

\* C2: when set_secret, delete_secret or init_secrets_file has returned or
\* raised, whatever step failed, the temp file does not exist.
C2_NoTempLeft ==
    \A p \in Procs :
        (pc[p] = "done" /\ op[p] \in MutatingOps) => ~Exists(tmp)

\* C2 witness: a call that wrote the temp file ended with the encryption
\* tool's non-zero exit.
C2_Witness ==
    \E p \in Procs :
        pc[p] = "done" /\ op[p] = "set" /\ res[p] = "SOPSError:encrypt" /\ ~Exists(tmp)

\* C3: the masked string cmd_peek prints never contains the full value, for
\* every stored non-empty value that is not all asterisks and every --chars.
C3_PeekHidesValue ==
    \A p \in Procs :
        (/\ op[p] = "peek" /\ pc[p] \in {"peek_length", "done"}
         /\ val[p] # <<>> /\ val[p] # Stars(Len(val[p])))
        => ~Contains(out[p], val[p])

\* C7: after a successful set_secret(k, v) on a store that decrypted to m, the
\* store decrypts to m with k mapped to v: get_secret(k) is v, every other key
\* keeps its value, no key is added or lost.
C7_SetReadBack ==
    \A p \in Procs :
        (pc[p] = "done" /\ op[p] = "set" /\ res[p] = "ok") =>
            LET m == PriorMap(prior[p])
                d == DecryptSecrets(store, "ok")
            IN  /\ d.err = "ok"
                /\ DOMAIN d.m = DOMAIN m \cup {key[p]}
                /\ \A x \in DOMAIN m \ {key[p]} : d.m[x] = m[x]
                /\ GetOn(store, key[p], "ok") = [err |-> "ok", value |-> val[p]]

\* C7 witness: a successful set that overwrote a key of a store holding
\* other keys too.
C7_Witness ==
    \E p \in Procs :
        /\ pc[p] = "done" /\ op[p] = "set" /\ res[p] = "ok"
        /\ key[p] \in DOMAIN PriorMap(prior[p])
        /\ PriorMap(prior[p])[key[p]] # val[p]
        /\ Cardinality(DOMAIN PriorMap(prior[p])) = Cardinality(AllKeys)

\* strictly increasing in Python's string order
IsSortedLex(s) == \A i \in 1..(Len(s) - 1) : LexLess(s[i], s[i + 1])

SeqRange(s) == {s[i] : i \in DOMAIN s}

\* C8: after a successful delete_secret(k), get_secret(k) fails with
\* KeyNotFoundError, list_keys returns exactly the previous keys without k in
\* lexicographic order, and the remaining keys keep their values.
C8_DeleteReadBack ==
    \A p \in Procs :
        (pc[p] = "done" /\ op[p] = "delete" /\ res[p] = "ok") =>
            LET m == PriorMap(prior[p])
                d == DecryptSecrets(store, "ok")
                l == list_keys_of(d.m)
            IN  /\ d.err = "ok"
                /\ GetOn(store, key[p], "ok").err = "KeyNotFoundError"
                /\ SeqRange(l) = DOMAIN m \ {key[p]}
                /\ Len(l) = Cardinality(DOMAIN m \ {key[p]})
                /\ IsSortedLex(l)
                /\ \A x \in DOMAIN m \ {key[p]} : GetOn(store, x, "ok").value = m[x]

\* C8 witness: a successful delete that leaves two keys to list.
C8_Witness ==
    \E p \in Procs :
        /\ pc[p] = "done" /\ op[p] = "delete" /\ res[p] = "ok"
        /\ Cardinality(DOMAIN PriorMap(prior[p])) = Cardinality(AllKeys)

\* C9: no operation removes the store file: once it exists, it exists in
\* every later state.
C9_StoreNeverRemoved == [][Exists(store) => Exists(store')]_vars

\* C11: whichever input mode is used (--value, --from-file, hidden prompt),
\* cmd_set never calls set_secret with an empty string, and a cmd_set that
\* succeeded has not stored an empty value under its key.
C11_EmptyRejected ==
    \A p \in Procs :
        (op[p] = "set" /\ cli[p].mode # "none" /\ "core" \in did[p]) =>
            /\ val[p] # <<>>
            /\ (pc[p] = "done" /\ res[p] = "ok") => PriorMap(store)[key[p]] # <<>>

\* C12: when the sops or age-keygen executable is missing, the operation that
\* needed it ends with a SecretsError, which its command turns into a message
\* and return 1; it does not leave the command as an untyped exception.
C12_ToolMissingTyped ==
    \A p \in Procs :
        (pc[p] = "done" /\ "tool-missing" \in did[p]) =>
            /\ res[p] \in SecretsErrors
            /\ CliOutcome(res[p]) = "return 1"

\* C13: init_secrets_file called on a path where a store exists ends with the
\* store-already-exists error and has touched nothing: the store is the file
\* it was, no temp file was written, .sops.yaml was not written and no tool
\* was run.
C13_InitRefusesExisting ==
    \A p \in Procs :
        (pc[p] = "done" /\ op[p] = "init" /\ "core" \in did[p] /\ Exists(prior[p])) =>
            /\ res[p] = "SecretsError:exists"
            /\ store = prior[p]
            /\ tmp = Absent
            /\ did[p] = {"core"}

\* C13 witness: init_secrets_file has refused an existing store while a
\* .sops.yaml was there.
C13_Witness ==
    \E p \in Procs :
        /\ pc[p] = "done" /\ op[p] = "init" /\ res[p] = "SecretsError:exists"
        /\ Exists(store) /\ Exists(sopsCfg)

\* C14: after a successful init_secrets_file the store exists, is encrypted,
\* and decrypts to a mapping with exactly one key, "_example" (first
\* character "_"); list_keys returns exactly that key.
C14_InitPlaceholder ==
    \A p \in Procs :
        (pc[p] = "done" /\ op[p] = "init" /\ res[p] = "ok") =>
            /\ store.kind = "enc"
            /\ DecryptSecrets(store, "ok").err = "ok"
            /\ DOMAIN DecryptSecrets(store, "ok").m = {ExampleKey}
            /\ list_keys_of(DecryptSecrets(store, "ok").m) = <<ExampleKey>>
            /\ ExampleKey[1] = 95

\* C14 witness: an init_secrets_file call on an absent path has succeeded.
C14_Witness ==
    \E p \in Procs :
        /\ pc[p] = "done" /\ op[p] = "init" /\ res[p] = "ok"
        /\ "core" \in did[p] /\ ~Exists(prior[p]) /\ Exists(store)

\* the three ways no recipient can be derived
Underivable == {"nokey", "keygen-nonzero", "keygen-empty"}

\* C15: init_secrets_file called without a recipient, when none can be derived
\* (no private key file, age-keygen exits non-zero, or it prints nothing),
\* ends with the no-recipient error without having written a temp file,
\* .sops.yaml or the store, and the store path is still absent.
C15_NoRecipient ==
    \A p \in Procs :
        (pc[p] = "done" /\ op[p] = "init" /\ did[p] \cap Underivable # {}) =>
            /\ res[p] = "SecretsError:norecipient"
            /\ did[p] \cap {"tmp", "cfg", "store", "sops-e"} = {}
            /\ store = Absent
            /\ tmp = Absent

\* C15 witness: age-keygen printed nothing and init_secrets_file has ended
\* with the no-recipient error.
C15_Witness ==
    \E p \in Procs :
        /\ pc[p] = "done" /\ op[p] = "init" /\ res[p] = "SecretsError:norecipient"
        /\ "keygen-empty" \in did[p]

\* C16: .sops.yaml is written only by init_secrets_file and only when it does
\* not exist: a step that changes it is init's write of a new file naming the
\* call's recipient, and once the file exists no step changes it.
C16_ConfigWriteOnce ==
    [][/\ Exists(sopsCfg) => sopsCfg' = sopsCfg
       /\ sopsCfg' # sopsCfg =>
            \E p \in Procs : /\ op[p] = "init" /\ pc[p] = "write_cfg"
                             /\ sopsCfg' = ConfigFile(recip[p])]_vars

\* C16 witness: a further init with a different recipient has succeeded and
\* .sops.yaml still names the first one.
C16_Witness ==
    \E p \in Procs :
        /\ pc[p] = "done" /\ op[p] = "init" /\ res[p] = "ok"
        /\ Exists(sopsCfg) /\ sopsCfg # ConfigFile(recip[p])

\* a binding that cannot be resolved against the mapping m
BadBinding(b, m) == ~HasSep(b) \/ SplitFirst(b).key \notin DOMAIN m

\* C17: cmd_exec runs the target command only after every binding has been
\* resolved; when a binding at any position lacks "=" or names an absent key,
\* or the store could not be read, cmd_exec ends in failure and the command
\* has not been executed.
C17_FailFast ==
    \A p \in Procs :
        op[p] = "exec" =>
            /\ exe[p].child.ran =>
                 /\ exe[p].idx = Len(exe[p].binds) + 1
                 /\ "decrypt-failed" \notin did[p]
                 /\ \A i \in DOMAIN exe[p].binds :
                        ~BadBinding(exe[p].binds[i], PriorMap(store))
            /\ (/\ pc[p] = "done"
                /\ \/ "decrypt-failed" \in did[p]
                   \/ \E i \in DOMAIN exe[p].binds :
                          BadBinding(exe[p].binds[i], PriorMap(store)))
               => /\ ~exe[p].child.ran
                  /\ CliOutcome(res[p]) # "return 0"

\* C17 witness: the first binding was resolved, the second names an absent
\* key, and cmd_exec has ended without running the command.
C17_Witness ==
    \E p \in Procs :
        /\ pc[p] = "done" /\ op[p] = "exec" /\ res[p] = "KeyNotFoundError"
        /\ exe[p].idx = 2 /\ Len(exe[p].binds) = 2
        /\ ~exe[p].child.ran

\* the environment the bindings describe: the parent's, with each bound
\* variable at the secret of the last binding that names it
ExpectedEnv(parent, binds, m) ==
    LET bound == {SplitFirst(binds[i]).var : i \in DOMAIN binds}
        last(v) == CHOOSE i \in DOMAIN binds :
                      /\ SplitFirst(binds[i]).var = v
                      /\ \A j \in DOMAIN binds : SplitFirst(binds[j]).var = v => j <= i
    IN  [v \in DOMAIN parent \cup bound |->
            IF v \in bound THEN m[SplitFirst(binds[last(v)]).key] ELSE parent[v]]

\* C18: cmd_exec never changes the parent's environment, and the child it
\* runs gets the parent's environment with each bound variable set to the
\* resolved secret, a later binding of a variable overriding an earlier one.
C18_ParentEnvKept ==
    \A p \in Procs :
        op[p] = "exec" =>
            /\ environ = ParentEnv
            /\ exe[p].child.ran =>
                 exe[p].child.env = ExpectedEnv(ParentEnv, exe[p].binds, PriorMap(store))

\* C18 witness: the child ran with a variable of the parent bound twice, to
\* two different secrets.
C18_Witness ==
    \E p \in Procs :
        /\ pc[p] = "done" /\ op[p] = "exec" /\ exe[p].child.ran
        /\ exe[p].binds = <<BindAa, BindAb>>
        /\ PriorMap(store)[KeyA] # PriorMap(store)[KeyB]
        /\ exe[p].child.env[VarA] = PriorMap(store)[KeyB]

\* C20: with a single writer, a set_secret or delete_secret call that fails
\* (store absent for delete, decryption failed, key not found for delete,
\* encryption failed, a write failed) leaves the file at the canonical path
\* exactly as it was when the call began; a call whose decryption of the
\* existing store failed is such a failure and has written no temp file.
C20_FailureKeepsStore ==
    \A p \in Procs :
        (pc[p] = "done" /\ op[p] \in {"set", "delete"}) =>
            /\ res[p] # "ok" => store = prior[p]
            /\ "decrypt-failed" \in did[p] =>
                 /\ res[p] \in {"SOPSError:decrypt", "FileNotFoundError"}
                 /\ store = prior[p]
                 /\ "tmp" \notin did[p]

\* C20 witness: set_secret on an existing store that could not be decrypted
\* has failed.
C20_Witness ==
    \E p \in Procs :
        /\ pc[p] = "done" /\ op[p] = "set" /\ res[p] = "SOPSError:decrypt"
        /\ Exists(store) /\ "decrypt-failed" \in did[p]

\* the operations that only read
ReadOps == {"list", "get", "peek", "exec"}

\* C22: no step of list_keys, get_secret, cmd_peek or of cmd_exec before the
\* child is run creates, changes, renames or deletes the store file, the temp
\* file or .sops.yaml, whether the operation succeeds or fails.
C22_ReadsTouchNothing ==
    [][(\E p \in Procs : op'[p] \in ReadOps /\ ~exe'[p].child.ran)
          => <<store, tmp, sopsCfg>>' = <<store, tmp, sopsCfg>>]_vars

\* C22 witness: a read has run the decryption tool on an existing encrypted
\* store, beside an existing .sops.yaml, and has ended.
C22_Witness ==
    \E p \in Procs :
        /\ pc[p] = "done" /\ op[p] \in ReadOps
        /\ "sops-d" \in did[p] /\ "decrypt-failed" \notin did[p]
        /\ store.kind = "enc" /\ Exists(sopsCfg)

\* C23: after a cmd_set that read its value from the --from-file file (with
\* or without --delete-file) has ended, the value is stored under the key in
\* the store, or the source file still exists.
C23_SecretNotLost ==
    \A p \in Procs :
        (pc[p] = "done" /\ op[p] = "set" /\ cli[p].mode = "from_file"
            /\ "core" \in did[p]) =>
            \/ /\ key[p] \in DOMAIN PriorMap(store)
               /\ PriorMap(store)[key[p]] = val[p]
            \/ Exists(cli[p].src)


(***************************************************************************)
(* mask_value on its own: the inputs are drawn at the start, ApplyMask     *)
(* computes the two masks.                                                 *)
(***************************************************************************)
MaskAlphabet == {97, 98, Star}

ShortValues == UNION {[1..n -> MaskAlphabet] : n \in 0..MaxShortLen}

Heads == {<<97, 98, 97, 98>>, <<98, 98, 97, 42>>}
Tails == {<<98, 97, 97, 97>>, <<97, 97, 98, 98>>}

\* values of exactly twice the default visible count
BoundaryValues == {h \o t : h \in Heads, t \in Tails}

\* head, a run of one character, tail: lengths from one below the point
\* where the cap starts to bite
LongValues ==
    {h \o [i \in 1..n |-> c] \o t :
        h \in Heads, t \in Tails, n \in (MaskCap - 1)..MaxMidLen, c \in {97, 98}}

MaskValues == ShortValues \cup BoundaryValues \cup LongValues

MaskChars == (0 - MaxNegChars)..MaxChars

InitMask ==
    /\ store = Absent /\ tmp = Absent /\ sopsCfg = Absent
    /\ InitProcs({})
    /\ mv1 \in MaskValues /\ mv2 \in MaskValues /\ mn \in MaskChars
    /\ mr1 = <<>> /\ mr2 = <<>> /\ mdone = FALSE
    /\ InitEnviron
    /\ InitPathIdle

ApplyMask ==
    /\ ~mdone
    /\ mr1' = mask_value(mv1, mn)
    /\ mr2' = mask_value(mv2, mn)
    /\ mdone' = TRUE
    /\ UNCHANGED <<fsVars, procVars, mv1, mv2, mn, did, extVars>>

NextMask == ApplyMask

SpecMask == InitMask /\ [][NextMask]_vars

AllStars(s) == \A i \in DOMAIN s : s[i] = Star

\* C4: for a non-empty value and visibleChars >= 0 with len(value) >
\* 2*visibleChars, the mask is the first visibleChars characters, then
\* min(len(value) - 2*visibleChars, 8) asterisks, then the last visibleChars
\* characters.
C4_MaskShape ==
    (mdone /\ mv1 # <<>> /\ mn >= 0 /\ Len(mv1) > 2 * mn) =>
        mr1 = SubSeq(mv1, 1, mn)
                \o [i \in 1..Min(Len(mv1) - 2 * mn, 8) |-> Star]
                \o SubSeq(mv1, Len(mv1) - mn + 1, Len(mv1))

\* C5: a value with 1 <= len(value) <= 2*visibleChars is masked as exactly
\* len(value) asterisks; the empty value gives "(empty)" for any visibleChars.
C5_FullyMasked ==
    mdone =>
        /\ (1 <= Len(mv1) /\ Len(mv1) <= 2 * mn) =>
               (Len(mr1) = Len(mv1) /\ AllStars(mr1))
        /\ mv1 = <<>> => mr1 = EmptySentinel

\* C5 witness: a value of exactly 2*visibleChars characters, none of them an
\* asterisk, has been masked.
C5_Witness ==
    /\ mdone /\ mn >= 1 /\ Len(mv1) = 2 * mn
    /\ \A i \in DOMAIN mv1 : mv1[i] # Star

\* C6: with visibleChars = 4, two values of length >= 16 with the same first
\* four and last four characters have the same mask: 16 characters, the
\* middle exactly 8 asterisks, whatever the true lengths.
C6_LengthHidden ==
    (/\ mdone /\ mn = DefaultPeekChars
     /\ Len(mv1) >= 2 * DefaultPeekChars + MaskCap
     /\ Len(mv2) >= 2 * DefaultPeekChars + MaskCap
     /\ SubSeq(mv1, 1, 4) = SubSeq(mv2, 1, 4)
     /\ SubSeq(mv1, Len(mv1) - 3, Len(mv1)) = SubSeq(mv2, Len(mv2) - 3, Len(mv2)))
    => /\ mr1 = mr2
       /\ Len(mr1) = 16
       /\ SubSeq(mr1, 1, 4) = SubSeq(mv1, 1, 4)
       /\ AllStars(SubSeq(mr1, 5, 12))
       /\ SubSeq(mr1, 13, 16) = SubSeq(mv1, Len(mv1) - 3, Len(mv1))

\* C6 witness: two such values of different lengths and different middles
\* have been masked.
C6_Witness ==
    /\ mdone /\ mn = DefaultPeekChars
    /\ Len(mv1) >= 16 /\ Len(mv2) > Len(mv1)
    /\ mv1[5] # mv2[5]
    /\ SubSeq(mv1, 1, 4) = SubSeq(mv2, 1, 4)
    /\ SubSeq(mv1, Len(mv1) - 3, Len(mv1)) = SubSeq(mv2, Len(mv2) - 3, Len(mv2))


(***************************************************************************)
(* get_default_secrets_file on its own: the environment variables, the     *)
(* home directory and the files that exist are drawn at the start,         *)
(* ResolvePath computes the path.  A path is the sequence of its           *)
(* components; an environment variable is <<>> when unset, <<value>> when  *)
(* set (the value "" is the empty path <<>>).                              *)
(***************************************************************************)
\* Path.home()
Homes == {<<"/", "home", "u">>, <<"/", "root">>}

\* Path.expanduser(): a leading "~" component becomes the home directory
expanduser(path, home) ==
    IF path # <<>> /\ path[1] = "~" THEN home \o Tail(path) ELSE path

\* get_config_dir()
get_config_dir(xdg, home) ==
    (IF Truthy(xdg) THEN xdg[1] ELSE home \o <<".config">>) \o <<"llm-secrets">>

\* Path.home() / ".claude" / "secrets.yaml"
claude_file(home) == home \o <<".claude", "secrets.yaml">>

\* faulty variant that looks at ~/.claude/secrets.yaml before the config dir
get_default_claude_first(envFile, xdg, home, files) ==
    LET config_file == get_config_dir(xdg, home) \o <<"secrets.yaml">>
    IN  IF Truthy(envFile) THEN expanduser(envFile[1], home)
        ELSE IF claude_file(home) \in files THEN claude_file(home)
        ELSE config_file

\* get_default_secrets_file()
get_default_secrets_file(envFile, xdg, home, files) ==
    LET config_file == get_config_dir(xdg, home) \o <<"secrets.yaml">>
    IN  IF Truthy(envFile) THEN expanduser(envFile[1], home)
        ELSE IF config_file \in files THEN config_file
        ELSE IF claude_file(home) \in files THEN claude_file(home)
        ELSE config_file

\* LLM_SECRETS_FILE: unset, "", "/f.yaml", "~/f.yaml"
EnvFiles == {<<>>, <<<<>>>>, <<<<"/", "f.yaml">>>>, <<<<"~", "f.yaml">>>>}

\* XDG_CONFIG_HOME: unset, "", "/x"
XdgHomes == {<<>>, <<<<>>>>, <<<<"/", "x">>>>}

\* the files that may exist: every config-dir file and every ~/.claude file
\* of the inputs above
CandidateFiles ==
    {get_config_dir(x, h) \o <<"secrets.yaml">> : x \in XdgHomes, h \in Homes}
        \cup {claude_file(h) : h \in Homes}

PathInputs ==
    {[envFile |-> e, xdg |-> x, home |-> h, files |-> F] :
        e \in EnvFiles, x \in XdgHomes, h \in Homes, F \in SUBSET CandidateFiles}

InitPath ==
    /\ store = Absent /\ tmp = Absent /\ sopsCfg = Absent
    /\ InitProcs({})
    /\ InitMaskIdle
    /\ InitEnviron
    /\ pathIn \in PathInputs
    /\ pathOut = NoPathOut

ResolvePath ==
    /\ ~pathOut.done
    /\ pathOut' = [done |-> TRUE,
                   path |-> get_default_secrets_file(pathIn.envFile, pathIn.xdg,
                                                     pathIn.home, pathIn.files)]
    /\ UNCHANGED <<fsVars, procVars, maskVars, did, cli, exe, environ, pathIn>>

NextPath == ResolvePath

SpecPath == InitPath /\ [][NextPath]_vars

\* <XDG_CONFIG_HOME or ~/.config>/llm-secrets/secrets.yaml for the inputs
ConfigDirFile(in) ==
    IF in.xdg # <<>> /\ in.xdg[1] # <<>>
      THEN in.xdg[1] \o <<"llm-secrets", "secrets.yaml">>
      ELSE in.home \o <<".config", "llm-secrets", "secrets.yaml">>

\* C19: a non-empty LLM_SECRETS_FILE is the default store path (with "~"
\* expanded); otherwise the config-directory file if it exists; otherwise
\* ~/.claude/secrets.yaml if it exists; otherwise the config-directory file
\* although it does not exist.
C19_PathPrecedence ==
    pathOut.done =>
        LET cfg == ConfigDirFile(pathIn)
            claude == pathIn.home \o <<".claude", "secrets.yaml">>
            env == pathIn.envFile
        IN  /\ (env # <<>> /\ env[1] # <<>>) =>
                  pathOut.path = (IF env[1][1] = "~" THEN pathIn.home \o Tail(env[1])
                                  ELSE env[1])
            /\ (env = <<>> \/ env[1] = <<>>) =>
                  /\ cfg \in pathIn.files => pathOut.path = cfg
                  /\ (cfg \notin pathIn.files /\ claude \in pathIn.files) =>
                        pathOut.path = claude
                  /\ (cfg \notin pathIn.files /\ claude \notin pathIn.files) =>
                        pathOut.path = cfg

\* C19 witness: LLM_SECRETS_FILE is set but empty, both files exist, and the
\* config-directory file was chosen.
C19_Witness ==
    /\ pathOut.done
    /\ pathIn.envFile = <<<<>>>>
    /\ ConfigDirFile(pathIn) \in pathIn.files
    /\ pathIn.home \o <<".claude", "secrets.yaml">> \in pathIn.files
    /\ pathOut.path = ConfigDirFile(pathIn)


(***************************************************************************)
(* Two processes mutating the same store path, no lock between them.       *)
(***************************************************************************)
InitConc ==
    /\ store \in {Absent} \cup {EncFile(yaml_dump(m)) : m \in UserMaps}
    /\ tmp = Absent /\ sopsCfg = Absent
    /\ InitProcs(Procs)
    /\ InitMaskIdle
    /\ InitEnviron
    /\ InitPathIdle

\* one process's next step of a set_secret or delete_secret call
MutatorStep(p) ==
    \/ \E k \in Keys, v \in Values : SetSecret(p, k, v)
    \/ \E k \in AllKeys : DeleteSecret(p, k)
    \/ Decrypt(p)
    \/ OpenTmp(p)
    \/ DumpTmp(p)
    \/ Encrypt(p)
    \/ Rename(p)
    \/ Finally(p)

NextConc == \E p \in Procs : MutatorStep(p)

\* each of the two processes runs one mutating call; their steps interleave
SpecConc == InitConc /\ [][NextConc]_vars

\* the mapping m after process p's mutation
Mutated(p, m) ==
    IF op[p] = "set"
      THEN [x \in DOMAIN m \cup {key[p]} |-> IF x = key[p] THEN val[p] ELSE m[x]]
      ELSE [x \in DOMAIN m \ {key[p]} |-> m[x]]

\* C10: when two set_secret/delete_secret calls on the same store interleave,
\* starting from the same store content, then after both have finished the
\* file at the canonical path is an encrypted, decryptable artifact whose
\* mapping is the initial mapping with one of the two mutations applied.
C10_LastWriterWins ==
    (/\ \A p \in Procs : pc[p] = "done" /\ op[p] \in {"set", "delete"}
     /\ prior[1] = prior[2]
     /\ \E p \in Procs : res[p] = "ok")
    => /\ store.kind = "enc"
       /\ \E p \in Procs : yaml_safe_load(store.text) = Mutated(p, PriorMap(prior[1]))

\* C21: when two set_secret/delete_secret calls on the same store path
\* interleave, in every reachable state the file at the canonical path is
\* absent or encrypted content; plaintext, whole or partial, is never there.
C21_NoPlaintextAtStore == store.kind \in {"absent", "enc"}

=============================================================================
